---------------------------- MODULE Spec2Model ----------------------------
(***************************************************************************)
(* zonepy.check_fl_area: does the gross floor area of one building comply  *)
(* with the fl_area constraint of each zoning district?                    *)
(*                                                                         *)
(* Python values are modelled as follows.                                  *)
(*   - A cell of min_value / max_value is a record [kind, items]: kind is  *)
(*     "list" for a Python list and "scalar" otherwise (items then has one *)
(*     entry).  An entry is [t, v]: t = "num" (a number, v), "none" (None),*)
(*     "nan" (float NaN) or "str" (a string).                              *)
(*   - None and NaN in a string-valued cell (min_select, unit, the notes)  *)
(*     are the strings PyNone and PyNaN.                                   *)
(*   - True / False / "MAYBE" are the strings "True", "False", "MAYBE"; a  *)
(*     local variable that has not been assigned is Unbound.               *)
(*   - A magnitude in ft^2 (a float in the code) is an integer number of   *)
(*     hundredths of a ft^2, so that the m^2 factor (10.76) is kept; a     *)
(*     product beyond Huge is kept as Huge, which is above every floor     *)
(*     area of the model, so that every comparison with a floor area is    *)
(*     the one the float gives.                                            *)
(***************************************************************************)
EXTENDS Integers, Sequences, FiniteSets

VARIABLES
    tidybuilding,   \* the gross_fl_area column of the building input
    tidyzoning,     \* the index labels of the district rows, in order
    pc,             \* "start", "loop", "returned", "raised"
    fl_area,        \* local fl_area (Unbound before line 40)
    i,              \* number of district rows the loop has consumed
    results,        \* local results
    min_allowed,    \* local min_allowed
    max_allowed,    \* local max_allowed
    resolved        \* what get_zoning_req returned, call after call

vars == <<tidybuilding, tidyzoning, pc, fl_area, i, results,
          min_allowed, max_allowed, resolved>>

-----------------------------------------------------------------------------
(* Bounds *)

MaxDistricts == 4
MaxListLen == 2

-----------------------------------------------------------------------------
(* Python values *)

PyNone == "<None>"
PyNaN == "<NaN>"
Unbound == "<unbound>"

Num(n) == [t |-> "num", v |-> n]
NoneEntry == [t |-> "none", v |-> 0]
NaNEntry == [t |-> "nan", v |-> 0]
StrEntry == [t |-> "str", v |-> 0]

Scalar(e) == [kind |-> "scalar", items |-> <<e>>]
List(s) == [kind |-> "list", items |-> s]

Bool(b) == IF b THEN "True" ELSE "False"

\* the string get_zoning_req returns for a district without requirements
NoRequirements == "No zoning requirements recorded for this district"

Marker == [kind |-> "str", text |-> NoRequirements, rows |-> <<>>]
NoneReq == [kind |-> "none", text |-> "", rows |-> <<>>]
Frame(rows) == [kind |-> "frame", text |-> "", rows |-> rows]

-----------------------------------------------------------------------------
(* The per-district evaluation, lines 57-134 *)

\* 'fl_area' in zoning_req['spec_type'].values
HasFlArea(zoning_req) ==
    \E k \in DOMAIN zoning_req.rows : zoning_req.rows[k].spec_type = "fl_area"

\* zoning_req[zoning_req['spec_type'] == 'fl_area'], then .values[0] of a column
FlAreaRow(zoning_req) ==
    LET hits == SelectSeq(zoning_req.rows, LAMBDA r : r.spec_type = "fl_area")
    IN  hits[1]

\* variant: only min_select is looked at
IsOZFSError_MinOnly(min_select, max_select) ==
    min_select = "OZFS Error"

\* min_select == 'OZFS Error' or max_select == 'OZFS Error'
IsOZFSError(min_select, max_select) ==
    min_select = "OZFS Error" \/ max_select = "OZFS Error"

\* v is None or pd.isna(v) or isinstance(v, str)
IsInvalid(e) == e.t \in {"none", "nan", "str"}

Magnitudes(entries) == [k \in DOMAIN entries |-> entries[k].v]

\* lines 73-79 and 81-87: the list of numbers of a cell, or the default
NormalizeBound(cell, default) ==
    IF cell.kind # "list"
    THEN IF IsInvalid(cell.items[1]) THEN <<default>> ELSE <<cell.items[1].v>>
    ELSE LET kept == SelectSeq(cell.items, LAMBDA e : ~IsInvalid(e))
         IN  IF kept = <<>> THEN <<default>> ELSE Magnitudes(kept)

DefaultMin == 0
DefaultMax == 1000000

NormalizeMin(min_value) == NormalizeBound(min_value, DefaultMin)
NormalizeMax(max_value) == NormalizeBound(max_value, DefaultMax)

\* largest magnitude kept, in hundredths of a ft^2
Huge == 2000 * 1000000

\* hundredths of a ft^2 in one unit of the label's unit; ft^2 by default
UnitFactor(unit) ==
    CASE unit = "square feet" -> 100
      [] unit = "square meters" -> 1076
      [] unit = "acres" -> 4356000
      [] OTHER -> 100

\* ureg.Quantity(v, target_unit).to('ft^2').magnitude
ToFt2(v, unit) ==
    IF v > Huge \div UnitFactor(unit) THEN Huge ELSE v * UnitFactor(unit)

ConvertAll(values, unit) == [k \in DOMAIN values |-> ToFt2(values[k], unit)]

\* the floor area, which the code takes to be in ft^2, in hundredths
Hundredths(area) == area * 100

RECURSIVE SeqMin(_)
SeqMin(s) ==
    IF Len(s) = 1 THEN s[1]
    ELSE LET m == SeqMin(Tail(s)) IN IF s[1] <= m THEN s[1] ELSE m

RECURSIVE SeqMax(_)
SeqMax(s) ==
    IF Len(s) = 1 THEN s[1]
    ELSE LET m == SeqMax(Tail(s)) IN IF s[1] >= m THEN s[1] ELSE m

\* variant: with "unique", minima that disagree count as a violation
MinAllowed_UniqueStrict(min_select, min_fl_area, area, prev) ==
    LET min_check_1 == SeqMin(min_fl_area) <= Hundredths(area)
        min_check_2 == SeqMax(min_fl_area) <= Hundredths(area)
    IN  IF min_select \in {"either", PyNone}
        THEN Bool(min_check_1 \/ min_check_2)
        ELSE IF min_select = "unique"
        THEN Bool(min_check_1 /\ min_check_2)
        ELSE prev

\* lines 103-113; prev is min_allowed as the earlier iterations left it
MinAllowed(min_select, min_fl_area, area, prev) ==
    LET min_check_1 == SeqMin(min_fl_area) <= Hundredths(area)
        min_check_2 == SeqMax(min_fl_area) <= Hundredths(area)
    IN  IF min_select \in {"either", PyNone}
        THEN Bool(min_check_1 \/ min_check_2)
        ELSE IF min_select = "unique"
        THEN IF min_check_1 /\ min_check_2 THEN "True"
             ELSE IF ~min_check_1 /\ ~min_check_2 THEN "False"
             ELSE "MAYBE"
        ELSE prev

\* variant: with "either", both the smallest and the largest maximum must hold
MaxAllowed_EitherBoth(max_select, max_fl_area, area, prev) ==
    LET max_check_1 == SeqMin(max_fl_area) >= Hundredths(area)
        max_check_2 == SeqMax(max_fl_area) >= Hundredths(area)
    IN  IF max_select \in {"either", PyNone}
        THEN Bool(max_check_1 /\ max_check_2)
        ELSE IF max_select = "unique"
        THEN IF max_check_1 /\ max_check_2 THEN "True"
             ELSE IF ~max_check_1 /\ ~max_check_2 THEN "False"
             ELSE "MAYBE"
        ELSE prev

\* lines 116-126; prev is max_allowed as the earlier iterations left it
MaxAllowed(max_select, max_fl_area, area, prev) ==
    LET max_check_1 == SeqMin(max_fl_area) >= Hundredths(area)
        max_check_2 == SeqMax(max_fl_area) >= Hundredths(area)
    IN  IF max_select \in {"either", PyNone}
        THEN Bool(max_check_1 \/ max_check_2)
        ELSE IF max_select = "unique"
        THEN IF max_check_1 /\ max_check_2 THEN "True"
             ELSE IF ~max_check_1 /\ ~max_check_2 THEN "False"
             ELSE "MAYBE"
        ELSE prev

\* lines 129-132, left to right: reading an unassigned local raises
\* UnboundLocalError, and `or` does not read max_allowed after a "MAYBE"
RaisesUnbound(mn, mx) ==
    mn = Unbound \/ (mn # "MAYBE" /\ mx = Unbound)

\* variant: a side that is False decides, whatever the other side is
FinalAllowed_FalseFirst(mn, mx) ==
    IF mn = "False" \/ mx = "False" THEN "False"
    ELSE IF mn = "MAYBE" \/ mx = "MAYBE" THEN "MAYBE"
    ELSE "True"

FinalAllowed(mn, mx) ==
    IF mn = "MAYBE" \/ mx = "MAYBE" THEN "MAYBE"
    ELSE Bool(mn = "True" /\ mx = "True")

NewMin(row, area, prev) ==
    MinAllowed(row.min_select,
               ConvertAll(NormalizeMin(row.min_value), row.unit), area, prev)

NewMax(row, area, prev) ==
    MaxAllowed(row.max_select,
               ConvertAll(NormalizeMax(row.max_value), row.unit), area, prev)

ResultRow(index, allowed, min_note, max_note) ==
    [zoning_id |-> index, allowed |-> allowed,
     constraint_min_note |-> min_note, constraint_max_note |-> max_note]

-----------------------------------------------------------------------------
(* Inputs: what the caller passes and what get_zoning_req may return *)

ConstraintRow(spec_type, min_value, max_value, min_select, max_select, unit, min_note, max_note) ==
    [spec_type |-> spec_type, min_value |-> min_value, max_value |-> max_value,
     min_select |-> min_select, max_select |-> max_select, unit |-> unit,
     constraint_min_note |-> min_note, constraint_max_note |-> max_note]

Missing == Scalar(NoneEntry)

HeightRow ==
    ConstraintRow("height", Scalar(Num(10)), Scalar(Num(40)), "either", "either",
                  "feet", "height min", "height max")
RowA ==  \* minimum 500 ft^2, no maximum
    ConstraintRow("fl_area", Scalar(Num(500)), Missing, "either", PyNone,
                  "square feet", "at least 500", PyNone)
RowB ==  \* minimum 2000 ft^2
    ConstraintRow("fl_area", Scalar(Num(2000)), Scalar(NaNEntry), "either", "either",
                  "square feet", "at least 2000", "no maximum")
RowU ==  \* two minima that must agree
    ConstraintRow("fl_area", List(<<Num(500), Num(1000)>>), Missing, "unique", "either",
                  "square feet", "500 or 1000", PyNone)
RowX ==  \* min_select is NaN
    ConstraintRow("fl_area", Scalar(Num(2000)), Missing, PyNaN, "either",
                  "square feet", "at least 2000", PyNone)
RowY ==  \* max_select is none of the known modes
    ConstraintRow("fl_area", Scalar(Num(500)), Scalar(Num(600)), "either", "all",
                  "square feet", PyNone, "at most 600")
RowO ==  \* unparseable constraint
    ConstraintRow("fl_area", Scalar(Num(2000)), Scalar(Num(100)), "OZFS Error", "either",
                  "square feet", "at least 2000", "at most 100")

ResolverOutputs ==
    {Marker, NoneReq, Frame(<<>>), Frame(<<HeightRow>>),
     Frame(<<RowA>>), Frame(<<RowB>>), Frame(<<RowU>>), Frame(<<RowX>>),
     Frame(<<RowY>>), Frame(<<RowO>>),
     Frame(<<HeightRow, RowB>>), Frame(<<RowA, RowB>>)}

Buildings == {<<>>, <<750>>, <<3000>>, <<750, 3000>>}

\* the index of tidyzoning: the positions (a RangeIndex) or other labels,
\* neither sorted nor distinct
ZoningIndexes(n) ==
    {[k \in 1..n |-> k - 1], [k \in 1..n |-> ((7 * k) % 3) + 10]}

SeqsUpTo(S, n) == UNION {[1..k -> S] : k \in 0..n}

Entries == {Num(500), Num(1000), NaNEntry, StrEntry}
Cells ==
    {Scalar(e) : e \in Entries \cup {NoneEntry}}
        \cup {List(s) : s \in SeqsUpTo(Entries, MaxListLen)}
SimpleCells ==
    {Scalar(Num(500)), Scalar(Num(2000)), Missing, List(<<Num(500), Num(1000)>>)}
Selects == {"either", "unique", PyNone, PyNaN, "OZFS Error", "all"}
Units == {"square feet", "square meters", "acres", PyNone}
FlAreas == {750, 1000000, 1000001, 10760001}

RichRows ==
    {ConstraintRow("fl_area", c[1], c[2], ms, xs, u, "min note", "max note") :
        c \in (Cells \X SimpleCells) \cup (SimpleCells \X Cells),
        ms \in Selects, xs \in Selects, u \in Units}

RichOutputs == {Frame(<<r>>) : r \in RichRows}

-----------------------------------------------------------------------------
(* check_fl_area *)

Init ==
    /\ tidybuilding \in Buildings
    /\ \E n \in 0..MaxDistricts : tidyzoning \in ZoningIndexes(n)
    /\ pc = "start"
    /\ fl_area = Unbound
    /\ i = 0
    /\ results = <<>>
    /\ min_allowed = Unbound
    /\ max_allowed = Unbound
    /\ resolved = <<>>

\* one building and one district, any floor area of FlAreas
InitRow ==
    /\ \E a \in FlAreas : tidybuilding = <<a>>
    /\ tidyzoning \in ZoningIndexes(1)
    /\ pc = "start"
    /\ fl_area = Unbound
    /\ i = 0
    /\ results = <<>>
    /\ min_allowed = Unbound
    /\ max_allowed = Unbound
    /\ resolved = <<>>

\* variant: more than one gross_fl_area value, and the first is taken
CheckBuilding_TakesFirst ==
    /\ pc = "start"
    /\ IF Len(tidybuilding) >= 1
       THEN fl_area' = tidybuilding[1] /\ pc' = "loop"
       ELSE fl_area' = fl_area /\ pc' = "returned"
    /\ UNCHANGED <<tidybuilding, tidyzoning, i, results, min_allowed,
                   max_allowed, resolved>>

\* lines 39-42
CheckBuilding ==
    /\ pc = "start"
    /\ IF Len(tidybuilding) = 1
       THEN fl_area' = tidybuilding[1] /\ pc' = "loop"
       ELSE fl_area' = fl_area /\ pc' = "returned"
    /\ UNCHANGED <<tidybuilding, tidyzoning, i, results, min_allowed,
                   max_allowed, resolved>>

\* line 45: the loop has a next district row
InLoop == pc = "loop" /\ i < Len(tidyzoning)

\* line 46, and the row appended for the district
Verdict(zoning_req, allowed, min_note, max_note) ==
    /\ resolved' = Append(resolved, zoning_req)
    /\ results' = Append(results,
                         ResultRow(tidyzoning[i + 1], allowed, min_note, max_note))
    /\ i' = i + 1
    /\ UNCHANGED <<tidybuilding, tidyzoning, pc, fl_area>>

\* lines 49-51
IterNoRequirements(R) ==
    /\ InLoop
    /\ \E zoning_req \in R :
        /\ zoning_req.kind = "str" /\ zoning_req.text = NoRequirements
        /\ Verdict(zoning_req, "True", PyNone, PyNone)
    /\ UNCHANGED <<min_allowed, max_allowed>>

\* zoning_req is None or zoning_req.empty
IsEmptyReq(zoning_req) ==
    zoning_req.kind = "none" \/ (zoning_req.kind = "frame" /\ zoning_req.rows = <<>>)

\* lines 53-55
IterEmpty(R) ==
    /\ InLoop
    /\ \E zoning_req \in R :
        /\ ~(zoning_req.kind = "str" /\ zoning_req.text = NoRequirements)
        /\ IsEmptyReq(zoning_req)
        /\ Verdict(zoning_req, "True", PyNone, PyNone)
    /\ UNCHANGED <<min_allowed, max_allowed>>

\* the district reaches line 57 with a non-empty frame
Reaches57(zoning_req) ==
    /\ zoning_req.kind = "frame"
    /\ ~IsEmptyReq(zoning_req)

\* variant: a district without fl_area constraint is not allowed
IterNoFlArea_Denied(R) ==
    /\ pc = "loop" /\ i < Len(tidyzoning)
    /\ \E zoning_req \in R :
        /\ zoning_req.kind = "frame" /\ zoning_req.rows # <<>>
        /\ \A k \in DOMAIN zoning_req.rows : zoning_req.rows[k].spec_type # "fl_area"
        /\ resolved' = Append(resolved, zoning_req)
        /\ results' = Append(results, [zoning_id |-> tidyzoning[i + 1],
                                       allowed |-> "False",
                                       constraint_min_note |-> PyNone,
                                       constraint_max_note |-> PyNone])
        /\ i' = i + 1
        /\ UNCHANGED <<tidybuilding, tidyzoning, pc, fl_area>>
    /\ UNCHANGED <<min_allowed, max_allowed>>

\* lines 135-136
IterNoFlArea(R) ==
    /\ InLoop
    /\ \E zoning_req \in R :
        /\ Reaches57(zoning_req)
        /\ ~HasFlArea(zoning_req)
        /\ Verdict(zoning_req, "True", PyNone, PyNone)
    /\ UNCHANGED <<min_allowed, max_allowed>>

\* lines 57-69
IterOZFSError(R) ==
    /\ InLoop
    /\ \E zoning_req \in R :
        /\ Reaches57(zoning_req)
        /\ HasFlArea(zoning_req)
        /\ LET row == FlAreaRow(zoning_req)
           IN  /\ IsOZFSError(row.min_select, row.max_select)
               /\ Verdict(zoning_req, "True", row.constraint_min_note,
                          row.constraint_max_note)
    /\ UNCHANGED <<min_allowed, max_allowed>>

\* lines 57-134, the row evaluated and appended
IterEvaluate(R) ==
    /\ InLoop
    /\ \E zoning_req \in R :
        /\ Reaches57(zoning_req)
        /\ HasFlArea(zoning_req)
        /\ LET row == FlAreaRow(zoning_req)
               mn == NewMin(row, fl_area, min_allowed)
               mx == NewMax(row, fl_area, max_allowed)
           IN  /\ ~IsOZFSError(row.min_select, row.max_select)
               /\ ~RaisesUnbound(mn, mx)
               /\ min_allowed' = mn
               /\ max_allowed' = mx
               /\ Verdict(zoning_req, FinalAllowed(mn, mx),
                          row.constraint_min_note, row.constraint_max_note)

\* lines 57-129, UnboundLocalError at line 129: the call ends, nothing returned
IterRaise(R) ==
    /\ InLoop
    /\ \E zoning_req \in R :
        /\ Reaches57(zoning_req)
        /\ HasFlArea(zoning_req)
        /\ LET row == FlAreaRow(zoning_req)
               mn == NewMin(row, fl_area, min_allowed)
               mx == NewMax(row, fl_area, max_allowed)
           IN  /\ ~IsOZFSError(row.min_select, row.max_select)
               /\ RaisesUnbound(mn, mx)
               /\ min_allowed' = mn
               /\ max_allowed' = mx
               /\ resolved' = Append(resolved, zoning_req)
               /\ i' = i + 1
               /\ pc' = "raised"
               /\ UNCHANGED <<tidybuilding, tidyzoning, fl_area, results>>

\* line 138
Return ==
    /\ pc = "loop"
    /\ i = Len(tidyzoning)
    /\ pc' = "returned"
    /\ UNCHANGED <<tidybuilding, tidyzoning, fl_area, i, results, min_allowed,
                   max_allowed, resolved>>

Next ==
    \/ CheckBuilding
    \/ IterNoRequirements(ResolverOutputs)
    \/ IterEmpty(ResolverOutputs)
    \/ IterNoFlArea(ResolverOutputs)
    \/ IterOZFSError(ResolverOutputs)
    \/ IterEvaluate(ResolverOutputs)
    \/ IterRaise(ResolverOutputs)
    \/ Return

Spec == Init /\ [][Next]_vars

\* one district whose fl_area row is any row of RichRows
NextRow ==
    \/ CheckBuilding
    \/ IterOZFSError(RichOutputs)
    \/ IterEvaluate(RichOutputs)
    \/ IterRaise(RichOutputs)
    \/ Return

SpecRow == InitRow /\ [][NextRow]_vars

-----------------------------------------------------------------------------
(* Properties *)

Ended == pc \in {"returned", "raised"}

ZoningIds == [k \in DOMAIN results |-> results[k].zoning_id]

\* the k-th call of the resolver gave nothing with spec_type "fl_area"
NothingOnFlArea(req) ==
    \/ req.kind = "str" /\ req.text = NoRequirements
    \/ req.kind = "none"
    \/ req.kind = "frame" /\ \A k \in DOMAIN req.rows : req.rows[k].spec_type # "fl_area"

\* the first row of spec_type "fl_area" of a frame that has one
FirstFlArea(req) ==
    LET k == CHOOSE k \in DOMAIN req.rows :
                 /\ req.rows[k].spec_type = "fl_area"
                 /\ \A j \in 1..(k - 1) : req.rows[j].spec_type # "fl_area"
    IN  req.rows[k]

KnownModes == {"either", "unique", PyNone}

\* the bound lists of a row, normalized and in (hundredths of) ft^2
MinList(row) == ConvertAll(NormalizeMin(row.min_value), row.unit)
MaxList(row) == ConvertAll(NormalizeMax(row.max_value), row.unit)

AtLeast(row, k, area) == MinList(row)[k] <= Hundredths(area)
AtMost(row, k, area) == MaxList(row)[k] >= Hundredths(area)

\* all agree: "True"; none does: "False"; otherwise "MAYBE"
Agreement(all, none) == IF all THEN "True" ELSE IF none THEN "False" ELSE "MAYBE"

\* the one district of SpecRow has gone through lines 102-126
RowEvaluated ==
    /\ i = 1
    /\ ~NothingOnFlArea(resolved[1])
    /\ FirstFlArea(resolved[1]).min_select # "OZFS Error"
    /\ FirstFlArea(resolved[1]).max_select # "OZFS Error"

TheRow == FirstFlArea(resolved[1])

\* C1: with one gross_fl_area value the call returns one row per district,
\* whatever the resolver returns, and the zoning_id column is the index of
\* tidyzoning, in order.  (The code ends with UnboundLocalError instead when
\* a selection mode is unknown: see C3.)
C1_OneRowPerDistrict ==
    (Len(tidybuilding) = 1 /\ Ended) => (pc = "returned" /\ ZoningIds = tidyzoning)

\* C2: a building input without exactly one gross_fl_area value gives the
\* empty result at once: no row, no error, no call of the resolver.
C2_EmptyForOtherThanOneArea ==
    Len(tidybuilding) # 1 =>
        /\ pc \in {"start", "returned"}
        /\ results = <<>>
        /\ resolved = <<>>

C2_Witness ==
    /\ pc = "returned"
    /\ Len(tidybuilding) = 2
    /\ Len(tidyzoning) = MaxDistricts

\* C3: bad constraint data never raises: the district of a row with an
\* unknown selection mode gets a verdict, and it is True or "MAYBE".
C3_NeverRaises ==
    /\ pc # "raised"
    /\ \A k \in DOMAIN results :
        (/\ ~NothingOnFlArea(resolved[k])
         /\ \/ FirstFlArea(resolved[k]).min_select \notin KnownModes
            \/ FirstFlArea(resolved[k]).max_select \notin KnownModes)
            => results[k].allowed \in {"True", "MAYBE"}

\* C4: a district for which the resolver gives the marker, None, an empty
\* frame or a frame without fl_area row has a row with allowed = True and
\* both notes None.
C4_NoConstraintAllowed ==
    \A k \in DOMAIN resolved :
        NothingOnFlArea(resolved[k]) =>
            /\ k \in DOMAIN results
            /\ results[k].allowed = "True"
            /\ results[k].constraint_min_note = PyNone
            /\ results[k].constraint_max_note = PyNone

C4_Witness ==
    /\ pc = "returned"
    /\ tidybuilding = <<750>>
    /\ Len(results) = 4
    /\ resolved = <<Marker, NoneReq, Frame(<<>>), Frame(<<HeightRow>>)>>

\* C5: if min_select or max_select of the fl_area row is "OZFS Error" the
\* verdict is True for every floor area, bounds and unit, and the notes of
\* the row are the notes of the result.
C5_OZFSErrorAllowed ==
    \A k \in DOMAIN resolved :
        (/\ ~NothingOnFlArea(resolved[k])
         /\ \/ FirstFlArea(resolved[k]).min_select = "OZFS Error"
            \/ FirstFlArea(resolved[k]).max_select = "OZFS Error")
            => /\ k \in DOMAIN results
               /\ results[k].allowed = "True"
               /\ results[k].constraint_min_note =
                      FirstFlArea(resolved[k]).constraint_min_note
               /\ results[k].constraint_max_note =
                      FirstFlArea(resolved[k]).constraint_max_note

\* a maximum of 500 ft^2 against 750 ft^2, violated, and yet allowed
C5_Witness ==
    /\ pc = "returned"
    /\ fl_area = 750
    /\ Len(results) = 1
    /\ TheRow.max_value = Scalar(Num(500))
    /\ TheRow.max_select = "OZFS Error"
    /\ TheRow.min_select = "either"
    /\ TheRow.unit = "square feet"
    /\ results[1].allowed = "True"
    /\ results[1].constraint_max_note = "max note"

AllInvalid(cell) == \A k \in DOMAIN cell.items : cell.items[k].t # "num"

\* C7: without a valid max_value the maximum is 1,000,000 ft^2 under every
\* unit label: the maximum side is satisfied iff fl_area <= 1,000,000.
C7_DefaultCeilingInFt2 ==
    (/\ RowEvaluated
     /\ TheRow.max_select \in KnownModes
     /\ AllInvalid(TheRow.max_value))
        => max_allowed = Bool(fl_area <= 1000000)

\* C8: districts for which the resolver gives the same output get the same
\* allowed value and notes, whatever was processed before them.
C8_SameOutputSameVerdict ==
    \A j, k \in DOMAIN results :
        resolved[j] = resolved[k] =>
            /\ results[j].allowed = results[k].allowed
            /\ results[j].constraint_min_note = results[k].constraint_min_note
            /\ results[j].constraint_max_note = results[k].constraint_max_note

C10_EitherAnyValue ==
    RowEvaluated =>
        /\ TheRow.min_select \in {"either", PyNone} =>
              min_allowed = Bool(\E k \in DOMAIN MinList(TheRow) : AtLeast(TheRow, k, fl_area))
        /\ TheRow.max_select \in {"either", PyNone} =>
              max_allowed = Bool(\E k \in DOMAIN MaxList(TheRow) : AtMost(TheRow, k, fl_area))

\* one of two maxima holds, the smaller does not
C10_Witness ==
    /\ RowEvaluated
    /\ pc = "returned"
    /\ TheRow.max_value = List(<<Num(500), Num(1000)>>)
    /\ TheRow.max_select = PyNone
    /\ TheRow.unit = "square feet"
    /\ fl_area = 750
    /\ max_allowed = "True"
    /\ results[1].allowed = "True"

=============================================================================
